---- MODULE Spec2Model ----
(***************************************************************************)
(* The status tree of gitui (src/components/statustree.rs): a flat, sorted *)
(* sequence of file and directory entries with one optional cursor.        *)
(*                                                                         *)
(* A path is a sequence of one-character strings, <<"a","/","b">> for      *)
(* "a/b"; characters are ordered by their ASCII code, as str::cmp orders   *)
(* the bytes of a String.  Indices are 0-based as in the source, so the    *)
(* entry at index i is tree[i + 1].  Option<T> is a sequence of length 0   *)
(* (None) or 1 (Some).                                                     *)
(***************************************************************************)
EXTENDS Integers, Sequences, FiniteSets, TLC

VARIABLES tree, selection, call, ret, last_selection, last_path,
          before_left, same_list

vars == <<tree, selection, call, ret, last_selection, last_path,
          before_left, same_list>>

\* Largest number of records in a list handed to update.
MaxFiles == 3

None == <<>>

Some(x) == <<x>>

Min(a, b) == IF a < b THEN a ELSE b

\* ASCII codes of the characters that occur in the paths.
Code(ch) ==
    CASE ch = "-" -> 45
      [] ch = "/" -> 47
      [] ch = "2" -> 50
      [] ch = "a" -> 97
      [] ch = "b" -> 98
      [] ch = "c" -> 99
      [] ch = "d" -> 100
      [] ch = "x" -> 120
      [] ch = "z" -> 122

\* str::starts_with
starts_with(p, pre) ==
    /\ Len(pre) <= Len(p)
    /\ \A k \in 1..Len(pre) : p[k] = pre[k]

\* str::cmp(p, q) = Less: bytewise lexicographic order.
StrLess(p, q) ==
    \E k \in 1..(Len(q)) :
        /\ \A j \in 1..(k - 1) : j <= Len(p) /\ p[j] = q[j]
        /\ \/ k = Len(p) + 1
           \/ k <= Len(p) /\ Code(p[k]) < Code(q[k])

\* format!("{}/", path)
WithSlash(path) == path \o <<"/">>

\* The changed files a refresh can report.  No file is a directory of
\* another, so full paths are unique in every tree.
FilePaths ==
    { <<"a", "/", "b", "/", "c">>,
      <<"a", "/", "b", "-", "x">>,
      <<"a", "/", "d">>,
      <<"a", "-", "x">>,
      <<"a", "2", "/", "c">>,
      <<"z">> }

\* The lists update is called with (order and duplicates are the
\* builder's concern, so a list is given by the set of its paths).
Lists == { l \in SUBSET FilePaths : Cardinality(l) <= MaxFiles }

(***************************************************************************)
(* Tree builder (filetree.rs, not part of the sources at hand).            *)
(***************************************************************************)

\* Every directory named by a path of the list.
DirsOf(list) ==
    { SubSeq(p, 1, k - 1) : <<p, k>> \in
        { pk \in UNION { {p} \X (1..Len(p)) : p \in list } : pk[1][pk[2]] = "/" } }

new_file(p) ==
    [full_path |-> p, kind |-> "File", collapsed |-> FALSE, visible |-> TRUE]

new_path(p, c) ==
    [full_path |-> p, kind |-> "Path", collapsed |-> c, visible |-> TRUE]

\* The paths of S in ascending order.
RECURSIVE SortPaths(_)
SortPaths(S) ==
    IF S = {} THEN <<>>
    ELSE LET m == CHOOSE x \in S : \A y \in S : ~StrLess(y, x)
         IN <<m>> \o SortPaths(S \ {m})

\* Every path an entry can have, in ascending order.
AllPathsSorted == SortPaths(FilePaths \cup DirsOf(FilePaths))

\* FileTreeItems::new(list, collapsed): one entry per file and per distinct
\* directory, sorted ascending by full_path, directories flagged collapsed
\* when their path is in the set.
FileTreeItems_new(list, collapsed) ==
    LET dirs  == DirsOf(list)
        Has(p) == p \in list \/ p \in dirs
        paths == SelectSeq(AllPathsSorted, Has)
    IN [k \in 1..Len(paths) |->
          IF paths[k] \in dirs
          THEN new_path(paths[k], paths[k] \in collapsed)
          ELSE new_file(paths[k])]

\* Path::parent of a path, None for a path without separator.
RECURSIVE ParentPath(_)
ParentPath(p) ==
    IF p = <<>> THEN None
    ELSE IF p[Len(p)] = "/" THEN Some(SubSeq(p, 1, Len(p) - 1))
    ELSE ParentPath(SubSeq(p, 1, Len(p) - 1))

\* FileTreeItems::find_parent_index(path, index): the position of the
\* nearest ancestor directory entry, searched downwards from index.  The
\* result for a path without an ancestor entry is not fixed by the
\* contract: the set holds both the start of the sequence and the hint.
find_parent_index(t, path, index) ==
    LET parent == ParentPath(path)
        found  == { i \in 0..index :
                      parent # None /\ t[i + 1].full_path = parent[1] }
    IN IF found # {}
       THEN { CHOOSE i \in found : \A j \in found : j <= i }
       ELSE { 0, index }

(***************************************************************************)
(* StatusTree                                                              *)
(***************************************************************************)

IsCollapsedPath(e) == e.kind = "Path" /\ e.collapsed

IsExpandedPath(e) == e.kind = "Path" /\ ~e.collapsed

SetVisible(t, i, v) == [t EXCEPT ![i + 1].visible = v]

SetCollapsed(t, i, c) ==
    IF t[i + 1].kind = "Path" THEN [t EXCEPT ![i + 1].collapsed = c] ELSE t

is_empty(t) == Len(t) = 0

\* selected_item that finds nothing.
selected_item_forgotten(t, sel) == None

selected_item(t, sel) == IF sel = None THEN None ELSE Some(t[sel[1] + 1])

\* all_collapsed without the test of the flag.
all_collapsed_any_path(t) ==
    { t[k].full_path : k \in { j \in 1..Len(t) : t[j].kind = "Path" } }

all_collapsed(t) ==
    { t[k].full_path : k \in { j \in 1..Len(t) : IsCollapsedPath(t[j]) } }

\* slice::binary_search_by over the 0-based range [lo, hi).
RECURSIVE binary_search_by(_, _, _, _)
binary_search_by(t, target, lo, hi) ==
    IF lo >= hi THEN None
    ELSE LET mid == lo + ((hi - lo) \div 2)
             p   == t[mid + 1].full_path
         IN IF p = target THEN Some(mid)
            ELSE IF StrLess(p, target)
                 THEN binary_search_by(t, target, mid + 1, hi)
                 ELSE binary_search_by(t, target, lo, mid)

\* find_last_selection without the clamp of the fallback index.
find_last_selection_unclamped(t, last_sel, last_index) ==
    IF is_empty(t) THEN None
    ELSE LET r == binary_search_by(t, last_sel, 0, Len(t))
         IN IF r # None THEN r ELSE Some(last_index)

\* find_last_selection without the search for the path.
find_last_selection_by_index(t, last_sel, last_index) ==
    IF is_empty(t) THEN None
    ELSE Some(Min(last_index, Len(t) - 1))

\* find_last_selection falling back to the last entry.
find_last_selection_to_end(t, last_sel, last_index) ==
    IF is_empty(t) THEN None
    ELSE LET r == binary_search_by(t, last_sel, 0, Len(t))
         IN IF r # None THEN r ELSE Some(Len(t) - 1)

find_last_selection(t, last_sel, last_index) ==
    IF is_empty(t) THEN None
    ELSE LET r == binary_search_by(t, last_sel, 0, Len(t))
         IN IF r # None THEN r
            ELSE Some(Min(last_index, Len(t) - 1))

is_visible_index(t, idx) == t[idx + 1].visible

RECURSIVE update_visibility_from(_, _, _, _, _)
update_visibility_from(t, i, inner_collapsed, prefix, set_defaults) ==
    IF i >= Len(t) THEN t
    ELSE
      LET p == t[i + 1].full_path IN
      IF inner_collapsed # None /\ starts_with(p, inner_collapsed[1])
      THEN update_visibility_from(
               IF set_defaults THEN SetVisible(t, i, FALSE) ELSE t,
               i + 1, inner_collapsed, prefix, set_defaults)
      ELSE
        LET inner == IF IsCollapsedPath(t[i + 1])
                     THEN Some(WithSlash(p)) ELSE None
        IN IF prefix = None \/ starts_with(p, prefix[1])
           THEN update_visibility_from(SetVisible(t, i, TRUE),
                                       i + 1, inner, prefix, set_defaults)
           ELSE IF set_defaults
                THEN update_visibility_from(SetVisible(t, i, FALSE),
                                            i + 1, inner, prefix, set_defaults)
                ELSE t

update_visibility(t, prefix, start_idx, set_defaults) ==
    update_visibility_from(t, start_idx, None, prefix, set_defaults)

RECURSIVE collapse_from(_, _, _)
collapse_from(t, path, i) ==
    IF i >= Len(t) THEN t
    ELSE IF starts_with(t[i + 1].full_path, path)
         THEN collapse_from(SetVisible(t, i, FALSE), path, i + 1)
         ELSE t

collapse(t, path, index) ==
    collapse_from(SetCollapsed(t, index, TRUE), WithSlash(path), index + 1)

\* expand that also shows what lies under nested collapsed directories.
expand_all(t, path, current_index) ==
    [k \in 1..Len(t) |->
        IF k = current_index + 1 /\ t[k].kind = "Path"
        THEN [t[k] EXCEPT !.collapsed = FALSE]
        ELSE IF k > current_index + 1
                /\ starts_with(t[k].full_path, WithSlash(path))
        THEN [t[k] EXCEPT !.visible = TRUE]
        ELSE t[k]]

expand(t, path, current_index) ==
    update_visibility(SetCollapsed(t, current_index, FALSE),
                      Some(WithSlash(path)), current_index + 1, FALSE)

SelectionChange(t, new_index, changes) ==
    [tree |-> t, new_index |-> new_index, changes |-> changes]

\* The loop of selection_updown without the visibility test.
updown_loop_one_step(t, current_index, new_index, up) ==
    LET items_max == IF Len(t) = 0 THEN 0 ELSE Len(t) - 1
        stepped   == IF up
                     THEN (IF new_index = 0 THEN 0 ELSE new_index - 1)
                     ELSE new_index + 1
    IN Min(stepped, items_max)

\* The loop of selection_updown giving up at the first hidden row.
updown_loop_no_skip(t, current_index, new_index, up) ==
    LET items_max == IF Len(t) = 0 THEN 0 ELSE Len(t) - 1
        stepped   == IF up
                     THEN (IF new_index = 0 THEN 0 ELSE new_index - 1)
                     ELSE new_index + 1
        n         == Min(stepped, items_max)
    IN IF is_visible_index(t, n) THEN n ELSE current_index

\* The loop of selection_updown testing the limit before the visibility.
RECURSIVE updown_loop_stops_short(_, _, _, _)
updown_loop_stops_short(t, current_index, new_index, up) ==
    LET items_max == IF Len(t) = 0 THEN 0 ELSE Len(t) - 1
        stepped   == IF up
                     THEN (IF new_index = 0 THEN 0 ELSE new_index - 1)
                     ELSE new_index + 1
        n         == Min(stepped, items_max)
    IN IF n = 0 \/ n = items_max THEN current_index
       ELSE IF is_visible_index(t, n) THEN n
       ELSE updown_loop_stops_short(t, current_index, n, up)

RECURSIVE updown_loop(_, _, _, _)
updown_loop(t, current_index, new_index, up) ==
    LET items_max == IF Len(t) = 0 THEN 0 ELSE Len(t) - 1
        stepped   == IF up
                     THEN (IF new_index = 0 THEN 0 ELSE new_index - 1)
                     ELSE new_index + 1
        n         == Min(stepped, items_max)
    IN IF is_visible_index(t, n) THEN n
       ELSE IF n = 0 \/ n = items_max THEN current_index
       ELSE updown_loop(t, current_index, n, up)

selection_updown(t, current_index, up) ==
    { SelectionChange(t, updown_loop(t, current_index, current_index, up),
                      FALSE) }

\* selection_right stepping into the directory it expands.
selection_right_steps_in(t, current_selection) ==
    LET item == t[current_selection + 1] IN
    IF IsCollapsedPath(item)
    THEN { SelectionChange(expand(t, item.full_path, current_selection),
                           Min(current_selection + 1, Len(t) - 1), TRUE) }
    ELSE { SelectionChange(t, current_selection, FALSE) }

selection_right(t, current_selection) ==
    LET item == t[current_selection + 1] IN
    IF IsCollapsedPath(item)
    THEN { SelectionChange(expand(t, item.full_path, current_selection),
                           current_selection, TRUE) }
    ELSE { SelectionChange(t, current_selection, FALSE) }

\* selection_left reporting no change after a collapse.
selection_left_silent(t, current_selection) ==
    LET item == t[current_selection + 1] IN
    IF item.kind = "File" \/ IsCollapsedPath(item)
    THEN { SelectionChange(t, i, FALSE) :
             i \in find_parent_index(t, item.full_path, current_selection) }
    ELSE IF IsExpandedPath(item)
    THEN { SelectionChange(collapse(t, item.full_path, current_selection),
                           current_selection, FALSE) }
    ELSE { SelectionChange(t, current_selection, FALSE) }

\* selection_left moving to the parent from files only.
selection_left_files_only(t, current_selection) ==
    LET item == t[current_selection + 1] IN
    IF item.kind = "File"
    THEN { SelectionChange(t, i, FALSE) :
             i \in find_parent_index(t, item.full_path, current_selection) }
    ELSE IF IsExpandedPath(item)
    THEN { SelectionChange(collapse(t, item.full_path, current_selection),
                           current_selection, TRUE) }
    ELSE { SelectionChange(t, current_selection, FALSE) }

selection_left(t, current_selection) ==
    LET item == t[current_selection + 1] IN
    IF item.kind = "File" \/ IsCollapsedPath(item)
    THEN { SelectionChange(t, i, FALSE) :
             i \in find_parent_index(t, item.full_path, current_selection) }
    ELSE IF IsExpandedPath(item)
    THEN { SelectionChange(collapse(t, item.full_path, current_selection),
                           current_selection, TRUE) }
    ELSE { SelectionChange(t, current_selection, FALSE) }

MoveSelection == {"Up", "Down", "Left", "Right"}

Init ==
    /\ tree = <<>>
    /\ selection = None
    /\ call = "default"
    /\ ret = None
    /\ last_selection = None
    /\ last_path = None
    /\ before_left = None
    /\ same_list = FALSE

\* The paths of the files of t: the list t was built from.
FilesOf(t) ==
    { t[k].full_path : k \in { j \in 1..Len(t) : t[j].kind = "File" } }

\* History of the last call: its name, and the selection and the selected
\* path it started from; the state a move_selection(Left) started from and
\* what it returned, kept over a move_selection(Right) that follows it;
\* whether the call was an update with the list of the tree it replaced.
Remember(name) ==
    /\ call' = name
    /\ last_selection' = selection
    /\ last_path' = IF selection = None THEN None
                    ELSE Some(tree[selection[1] + 1].full_path)
    /\ before_left' =
          IF name = "Left"
          THEN Some([tree |-> tree, selection |-> selection, ret |-> ret'])
          ELSE IF name = "Right" /\ call = "Left" THEN before_left
          ELSE None
    /\ same_list' = (name = "update" /\ FilesOf(tree') = FilesOf(tree))

update(list) ==
    LET last_collapsed       == all_collapsed(tree)
        last_sel             == selected_item(tree, selection)
        last_selection_index == IF selection = None THEN 0 ELSE selection[1]
        new_tree             == FileTreeItems_new(list, last_collapsed)
        first                == IF Len(new_tree) > 0 THEN Some(0) ELSE None
        found                == IF last_sel # None
                                THEN find_last_selection(new_tree,
                                         last_sel[1].full_path,
                                         last_selection_index)
                                ELSE None
    IN /\ selection' = IF last_sel # None
                       THEN (IF found # None THEN found ELSE first)
                       ELSE first
       /\ tree' = update_visibility(new_tree, None, 0, TRUE)
       /\ ret' = None
       /\ Remember("update")

\* move_selection reporting a change when nothing is selected.
move_selection_none_changes(dir) ==
    /\ IF selection # None
       THEN \E sc \in (CASE dir = "Up"    -> selection_updown(tree, selection[1], TRUE)
                         [] dir = "Down"  -> selection_updown(tree, selection[1], FALSE)
                         [] dir = "Left"  -> selection_left(tree, selection[1])
                         [] dir = "Right" -> selection_right(tree, selection[1])) :
              /\ tree' = sc.tree
              /\ selection' = Some(sc.new_index)
              /\ ret' = Some(sc.new_index # selection[1] \/ sc.changes)
       ELSE /\ tree' = tree
            /\ selection' = selection
            /\ ret' = Some(TRUE)
    /\ Remember(dir)

move_selection(dir) ==
    /\ IF selection # None
       THEN \E sc \in (CASE dir = "Up"    -> selection_updown(tree, selection[1], TRUE)
                         [] dir = "Down"  -> selection_updown(tree, selection[1], FALSE)
                         [] dir = "Left"  -> selection_left(tree, selection[1])
                         [] dir = "Right" -> selection_right(tree, selection[1])) :
              /\ tree' = sc.tree
              /\ selection' = Some(sc.new_index)
              /\ ret' = Some(sc.new_index # selection[1] \/ sc.changes)
       ELSE /\ tree' = tree
            /\ selection' = selection
            /\ ret' = Some(FALSE)
    /\ Remember(dir)

Next ==
    \/ \E list \in Lists : update(list)
    \/ \E dir \in MoveSelection : move_selection(dir)

Spec == Init /\ [][Next]_vars

(***************************************************************************)
(* Properties                                                              *)
(***************************************************************************)

\* Some entry of t has the path p.
HasPath(t, p) == \E k \in 1..Len(t) : t[k].full_path = p

\* The last call was an update that started with an entry selected.
UpdatedFromSelection ==
    call = "update" /\ last_selection # None /\ last_path # None

\* C1: in every state reached from the default tree by update and
\* move_selection calls, selection is None exactly when there are no
\* entries, and otherwise Some(i) with 0 <= i < len(entries).
C1_SelectionInRange ==
    /\ selection = None <=> Len(tree) = 0
    /\ selection # None => selection[1] \in 0..(Len(tree) - 1)

\* An update whose index fallback clamped the old index to the last entry.
C1_Witness ==
    /\ UpdatedFromSelection
    /\ Len(tree) > 0
    /\ ~HasPath(tree, last_path[1])
    /\ last_selection[1] > Len(tree) - 1
    /\ selection = Some(Len(tree) - 1)

\* C2: after an update called with an entry selected whose full_path
\* occurs in the new sequence, the selected entry has that full_path.
C2_KeepSelectedPath ==
    (UpdatedFromSelection /\ HasPath(tree, last_path[1]))
        => /\ selection # None
           /\ selection[1] \in 0..(Len(tree) - 1)
           /\ tree[selection[1] + 1].full_path = last_path[1]

\* The selected path was kept although its index changed.
C2_Witness ==
    /\ UpdatedFromSelection
    /\ HasPath(tree, last_path[1])
    /\ selection # None
    /\ selection # last_selection
    /\ tree[selection[1] + 1].full_path = last_path[1]

\* C3: after an update called with an entry selected at index k whose
\* full_path does not occur in the new, non-empty sequence, the selection
\* is min(k, len - 1).
C3_KeepSelectedIndex ==
    (UpdatedFromSelection /\ Len(tree) > 0 /\ ~HasPath(tree, last_path[1]))
        => selection = Some(Min(last_selection[1], Len(tree) - 1))

\* The old index was kept, it is not the last one, and it now names
\* another path.
C3_Witness ==
    /\ UpdatedFromSelection
    /\ Len(tree) > 0
    /\ ~HasPath(tree, last_path[1])
    /\ last_selection[1] > 0
    /\ last_selection[1] < Len(tree) - 1
    /\ selection = last_selection

\* C4: after an update a directory entry is flagged collapsed exactly when
\* a directory with the same full_path was flagged collapsed in the
\* sequence right before the update.
C4_CollapsedByPath ==
    [][call' = "update" =>
        \A k \in 1..Len(tree') :
            tree'[k].kind = "Path" =>
                (tree'[k].collapsed <=>
                    \E j \in 1..Len(tree) :
                        /\ IsCollapsedPath(tree[j])
                        /\ tree[j].full_path = tree'[k].full_path)]_vars

\* After an update a collapsed directory stands behind an expanded one.
C4_Witness ==
    /\ call = "update"
    /\ \E k \in 1..Len(tree) : \E j \in 1..(k - 1) :
          IsCollapsedPath(tree[k]) /\ IsExpandedPath(tree[j])

\* Some proper ancestor directory of the entry at position k is collapsed.
AncestorCollapsed(t, k) ==
    \E j \in 1..Len(t) :
        /\ IsCollapsedPath(t[j])
        /\ starts_with(t[k].full_path, WithSlash(t[j].full_path))

\* Invariant I3: an entry is visible iff no proper ancestor is collapsed.
I3(t) == \A k \in 1..Len(t) : t[k].visible <=> ~AncestorCollapsed(t, k)

\* C5: I3 holds in every state reached from the default tree by update
\* and move_selection calls.
C5_Visibility == I3(tree)

\* A visible entry lies beyond index i in the direction of the move.
VisibleBeyond(t, i, up) ==
    \E j \in 0..(Len(t) - 1) :
        /\ IF up THEN j < i ELSE j > i
        /\ is_visible_index(t, j)

\* C6: move_selection(Up) and move_selection(Down) select only visible
\* entries: when the call changes the index the new entry is visible, and
\* when no visible entry lies in the direction of the move the index is
\* kept and the call returns false.
C6_UpDownVisible ==
    [][(call' \in {"Up", "Down"} /\ selection # None) =>
         /\ selection' # None
         /\ selection' # selection
              => is_visible_index(tree', selection'[1])
         /\ ~VisibleBeyond(tree, selection[1], call' = "Up")
              => selection' = selection /\ ret' = Some(FALSE)]_vars

\* Down was a no-op although entries follow the selected one: all of them
\* are hidden.
C6_Witness ==
    /\ call = "Down"
    /\ ret = Some(FALSE)
    /\ selection # None
    /\ selection = last_selection
    /\ selection[1] < Len(tree) - 1
    /\ ~VisibleBeyond(tree, selection[1], FALSE)

\* The entry at position k lies under the directory with path d.
Under(t, k, d) == starts_with(t[k].full_path, WithSlash(d))

\* The step leaves the length, the paths and the kinds of the entries alone.
SameEntries ==
    /\ Len(tree') = Len(tree)
    /\ \A k \in 1..Len(tree) :
          /\ tree'[k].full_path = tree[k].full_path
          /\ tree'[k].kind = tree[k].kind

\* The step is move_selection(Left) on an expanded directory, which is
\* collapse(D, i) for the selected directory D at index i.
CollapseStep ==
    /\ call' = "Left"
    /\ selection # None
    /\ IsExpandedPath(tree[selection[1] + 1])

\* C7: collapse(D, i) flags D collapsed, hides every entry whose full_path
\* starts with "D/", and leaves the visible flag of every other entry
\* unchanged.
C7_CollapseExact ==
    [][CollapseStep =>
        LET i == selection[1] + 1
            D == tree[i].full_path
        IN /\ SameEntries
           /\ tree'[i].collapsed
           /\ \A k \in 1..Len(tree) :
                 IF Under(tree, k, D)
                 THEN ~tree'[k].visible
                 ELSE tree'[k].visible = tree[k].visible]_vars

\* The step is move_selection(Right) on a collapsed directory all of whose
\* descendants are hidden, which is expand(D, i) for the selected D.
ExpandStep ==
    /\ call' = "Right"
    /\ selection # None
    /\ IsCollapsedPath(tree[selection[1] + 1])
    /\ \A k \in 1..Len(tree) :
          Under(tree, k, tree[selection[1] + 1].full_path) => ~tree[k].visible

\* A collapsed directory lies strictly between the directory at position i
\* and the entry at position k.
CollapsedBetween(t, i, k) ==
    \E j \in 1..Len(t) :
        /\ j # i
        /\ Under(t, j, t[i].full_path)
        /\ IsCollapsedPath(t[j])
        /\ Under(t, k, t[j].full_path)

\* C8: expand(D, i) clears only the collapse flag of D, shows exactly the
\* entries under "D/" with no still-collapsed directory between D and
\* themselves, and changes no flag of an entry outside "D/".
C8_ExpandScoped ==
    [][ExpandStep =>
        LET i == selection[1] + 1
            D == tree[i].full_path
        IN /\ SameEntries
           /\ ~tree'[i].collapsed
           /\ \A k \in 1..Len(tree) :
                 /\ k # i => tree'[k].collapsed = tree[k].collapsed
                 /\ IF Under(tree, k, D)
                    THEN tree'[k].visible <=> ~CollapsedBetween(tree', i, k)
                    ELSE tree'[k].visible = tree[k].visible]_vars

\* The step changes the collapse flag of some directory.
CollapseFlagChanged ==
    \/ Len(tree') # Len(tree)
    \/ \E k \in 1..Len(tree) : tree'[k].collapsed # tree[k].collapsed

\* C9: move_selection returns true exactly when the selection index or a
\* collapse flag changed, and false exactly when the whole state
\* (selection, collapse flags, visible flags) is as before.
C9_ReturnContract ==
    [][call' \in MoveSelection =>
        /\ ret' \in {Some(TRUE), Some(FALSE)}
        /\ ret' = Some(TRUE) <=> (selection' # selection \/ CollapseFlagChanged)
        /\ ret' = Some(FALSE) <=> (selection' = selection /\ tree' = tree)]_vars

\* Left returned true without moving the index: the selected directory was
\* collapsed in place.
C9_Witness ==
    /\ call = "Left"
    /\ ret = Some(TRUE)
    /\ selection # None
    /\ selection = last_selection
    /\ IsCollapsedPath(tree[selection[1] + 1])

\* d is the path of the immediate parent directory of the path p.
IsParentOf(d, p) ==
    /\ starts_with(p, WithSlash(d))
    /\ \A k \in (Len(d) + 2)..Len(p) : p[k] # "/"

\* The selected entry is a file or a collapsed directory with a parent.
LeftMoves(t, sel) ==
    /\ sel # None
    /\ t[sel[1] + 1].kind = "File" \/ IsCollapsedPath(t[sel[1] + 1])
    /\ \E k \in 1..Len(t) : IsParentOf(t[k].full_path, t[sel[1] + 1].full_path)

\* C10: move_selection(Left) on a file or a collapsed directory whose path
\* has a parent directory selects the entry of that parent, at a smaller
\* index, and changes no collapse flag and no visible flag.
C10_LeftToParent ==
    [][(call' = "Left" /\ LeftMoves(tree, selection)) =>
        /\ tree' = tree
        /\ selection' # None
        /\ selection'[1] < selection[1]
        /\ IsParentOf(tree[selection'[1] + 1].full_path,
                      tree[selection[1] + 1].full_path)]_vars

\* Left moved the cursor from a collapsed directory to its parent.
C10_Witness ==
    /\ call = "Left"
    /\ ret = Some(TRUE)
    /\ LeftMoves(tree, last_selection)
    /\ IsCollapsedPath(tree[last_selection[1] + 1])
    /\ selection # None
    /\ selection[1] < last_selection[1]
    /\ IsParentOf(tree[selection[1] + 1].full_path, last_path[1])

\* C11: on an empty tree selected_item is None, is_empty is true and
\* move_selection returns false and changes nothing, for every direction;
\* update with an empty list yields the empty tree with no selection from
\* any state.
C11_EmptyTreeInert ==
    [][/\ (call' \in MoveSelection /\ Len(tree) = 0 /\ selection = None) =>
            /\ selected_item(tree, selection) = None
            /\ is_empty(tree)
            /\ ret' = Some(FALSE)
            /\ tree' = tree
            /\ selection' = selection
       /\ update({}) =>
            /\ tree' = <<>>
            /\ selection' = None
            /\ is_empty(tree')
            /\ selected_item(tree', selection') = None]_vars

\* A move on the empty tree returned false.
C11_Witness ==
    /\ call \in MoveSelection
    /\ ret = Some(FALSE)
    /\ tree = <<>>
    /\ selection = None
    /\ last_selection = None

\* C12: each directory entry is followed by its descendants as one
\* contiguous run: no entry outside "D/" lies between D and an entry
\* under "D/".
C12_Contiguous ==
    \A i \in 1..Len(tree) :
        tree[i].kind = "Path" =>
            \A k \in (i + 1)..Len(tree) :
                Under(tree, k, tree[i].full_path) =>
                    \A j \in (i + 1)..(k - 1) :
                        Under(tree, j, tree[i].full_path)

\* C13: right after every update an entry is visible exactly when no
\* proper ancestor directory of it is flagged collapsed.
C13_UpdateVisibility == call = "update" => I3(tree)

\* The visible index nearest to i in the direction of the move.
NearestVisible(t, i, up) ==
    CHOOSE j \in 0..(Len(t) - 1) :
        /\ IF up THEN j < i ELSE j > i
        /\ is_visible_index(t, j)
        /\ \A h \in 0..(Len(t) - 1) :
              ((IF up THEN h < i ELSE h > i) /\ is_visible_index(t, h))
                  => (IF up THEN h <= j ELSE h >= j)

\* C14: move_selection(Down) selects the smallest visible index above the
\* current one and move_selection(Up) the largest visible index below it,
\* when there is one, and returns true.
C14_NextVisible ==
    [][(/\ call' \in {"Up", "Down"}
        /\ selection # None
        /\ VisibleBeyond(tree, selection[1], call' = "Up")) =>
          /\ selection' =
                Some(NearestVisible(tree, selection[1], call' = "Up"))
          /\ ret' = Some(TRUE)
          /\ tree' = tree]_vars

\* Down skipped at least one hidden row.
C14_Witness ==
    /\ call = "Down"
    /\ ret = Some(TRUE)
    /\ selection # None
    /\ last_selection # None
    /\ selection[1] > last_selection[1] + 1
    /\ is_visible_index(tree, selection[1])
    /\ \A j \in (last_selection[1] + 1)..(selection[1] - 1) :
          ~is_visible_index(tree, j)

\* C15: move_selection(Left) on an expanded directory collapses it in
\* place: its flag is set, every entry under it is hidden, the index is
\* kept and the call returns true.
C15_LeftCollapses ==
    [][CollapseStep =>
        LET i == selection[1] + 1
            D == tree[i].full_path
        IN /\ SameEntries
           /\ tree'[i].collapsed
           /\ \A k \in 1..Len(tree) : Under(tree, k, D) => ~tree'[k].visible
           /\ selection' = selection
           /\ ret' = Some(TRUE)]_vars

\* C16: move_selection(Right) keeps the index; on a collapsed directory it
\* clears the flag and returns true, on any other entry it changes nothing
\* and returns false.
C16_RightInPlace ==
    [][(call' = "Right" /\ selection # None) =>
        /\ selection' = selection
        /\ IF IsCollapsedPath(tree[selection[1] + 1])
           THEN /\ SameEntries
                /\ ~tree'[selection[1] + 1].collapsed
                /\ ret' = Some(TRUE)
           ELSE /\ tree' = tree
                /\ ret' = Some(FALSE)]_vars

\* Right expanded the selected directory in place and showed an entry
\* under it.
C16_Witness ==
    /\ call = "Right"
    /\ ret = Some(TRUE)
    /\ selection # None
    /\ selection = last_selection
    /\ IsExpandedPath(tree[selection[1] + 1])
    /\ \E k \in 1..Len(tree) :
          Under(tree, k, tree[selection[1] + 1].full_path) /\ tree[k].visible

\* C17: a move_selection call that starts on a visible entry ends on a
\* visible entry.
C17_StaysVisible ==
    [][(/\ call' \in MoveSelection
        /\ selection # None
        /\ is_visible_index(tree, selection[1])) =>
          /\ selection' # None
          /\ is_visible_index(tree', selection'[1])]_vars

\* The last two calls were move_selection(Left) and move_selection(Right),
\* and Left started from a state that satisfies I3 with a visible,
\* expanded directory selected.
RoundTripDone ==
    /\ call = "Right"
    /\ before_left # None
    /\ I3(before_left[1].tree)
    /\ before_left[1].selection # None
    /\ IsExpandedPath(
          before_left[1].tree[before_left[1].selection[1] + 1])
    /\ is_visible_index(before_left[1].tree, before_left[1].selection[1])

\* C18: from a state that satisfies I3 with a visible, expanded directory
\* selected, move_selection(Left) followed by move_selection(Right) returns
\* true twice and restores the selection and every flag of every entry.
C18_RoundTrip ==
    RoundTripDone =>
        /\ before_left[1].ret = Some(TRUE)
        /\ ret = Some(TRUE)
        /\ tree = before_left[1].tree
        /\ selection = before_left[1].selection

\* A round trip over a directory that holds a collapsed directory whose
\* entries stay hidden.
C18_Witness ==
    /\ RoundTripDone
    /\ tree = before_left[1].tree
    /\ \E j \in 1..Len(tree) : \E k \in 1..Len(tree) :
          /\ Under(tree, j, tree[selection[1] + 1].full_path)
          /\ IsCollapsedPath(tree[j])
          /\ Under(tree, k, tree[j].full_path)
          /\ ~tree[k].visible

\* C19: an update with the list the tree was built from leaves the paths,
\* the collapse flags and the selection index unchanged, and right after
\* an update it leaves the whole state, visible flags included, unchanged.
C19_RefreshKeepsView ==
    [][update(FilesOf(tree)) =>
        /\ SameEntries
        /\ \A k \in 1..Len(tree) : tree'[k].collapsed = tree[k].collapsed
        /\ selection' = selection
        /\ call = "update" => tree' = tree]_vars

\* A refresh with the same list kept a selection below the first row and
\* a collapsed directory.
C19_Witness ==
    /\ same_list
    /\ call = "update"
    /\ selection # None
    /\ selection[1] > 0
    /\ selection = last_selection
    /\ \E k \in 1..Len(tree) : IsCollapsedPath(tree[k])

\* move_selection(Up) or move_selection(Down) repeated from index i until
\* it returns false, at most fuel + 1 times: the index reached, the indices
\* selected on the way, the number of calls made and whether the last one
\* returned false.
RECURSIVE Sweep(_, _, _, _)
Sweep(t, i, up, fuel) ==
    LET n == updown_loop(t, i, i, up) IN
    IF n = i
    THEN [at |-> i, visited |-> {i}, calls |-> 1, done |-> TRUE]
    ELSE IF fuel = 0
    THEN [at |-> n, visited |-> {i, n}, calls |-> 1, done |-> FALSE]
    ELSE LET r == Sweep(t, n, up, fuel - 1)
         IN [at |-> r.at, visited |-> r.visited \cup {i},
             calls |-> r.calls + 1, done |-> r.done]

SweepUp == Sweep(tree, selection[1], TRUE, Len(tree))

SweepDown == Sweep(tree, SweepUp.at, FALSE, Len(tree))

\* C20: with a non-empty tree, repeating move_selection(Up) until it
\* returns false and then move_selection(Down) until it returns false
\* selects every visible entry, and each repetition returns false after
\* at most len(entries) calls.
C20_VisibleRowsReachable ==
    selection # None =>
        /\ SweepUp.done
        /\ SweepUp.calls <= Len(tree)
        /\ SweepDown.done
        /\ SweepDown.calls <= Len(tree)
        /\ \A j \in 0..(Len(tree) - 1) :
              is_visible_index(tree, j)
                  => j \in SweepUp.visited \cup SweepDown.visited

\* The cursor is below the first row, a hidden row lies between two visible
\* ones, and the sweep selects three rows or more.
C20_Witness ==
    /\ selection # None
    /\ selection[1] > 0
    /\ \E h \in 1..(Len(tree) - 2) :
          /\ ~is_visible_index(tree, h)
          /\ \E j \in (h + 1)..(Len(tree) - 1) : is_visible_index(tree, j)
    /\ Cardinality(SweepDown.visited) >= 3
    /\ \A j \in 0..(Len(tree) - 1) :
          is_visible_index(tree, j) => j \in SweepDown.visited

====
